---- MODULE Spec2Model ----
(***************************************************************************)
(* Model of railway_quote_bot.py: the record extraction, the selection,    *)
(* the tweet formatting and the mark-as-posted write-back of               *)
(* RailwayQuoteBot, and main() as one process run over the sheet.          *)
(*                                                                         *)
(* A Python str is a sequence of one-character strings.  An optional value *)
(* (None or a str) is a sequence of length 0 (None) or 1 (the value).      *)
(***************************************************************************)
EXTENDS Integers, Sequences, FiniteSets, TLC

VARIABLES
    headers,     \* row 1 of the worksheet: a sequence of str
    cells,       \* rows 2.. of the worksheet: cells[i][c] is the cell of sheet row i+1, column c
    last,        \* what the last run of main() did (its calls and its result)
    published,   \* history: the sheet rows whose quote some run has published
    clean,       \* history: every run so far published and wrote back without a failure
    extracted,   \* extraction check: the records get_quotes_from_sheet returned
    quote_data,  \* formatter check: the record given to format_tweet
    tweet,       \* formatter check: the str format_tweet returned
    phase        \* which check runs, and whether its operation has been applied

vars == <<headers, cells, last, published, clean, extracted, quote_data, tweet, phase>>

-----------------------------------------------------------------------------
(* Bounds of the model *)

MaxRows == 3        \* data rows of the worksheet
MaxTextLen == 300   \* longest quote text given to format_tweet
MaxAuthorLen == 240 \* longest author given to format_tweet

-----------------------------------------------------------------------------
(* Python str operations *)

Range(s) == {s[i] : i \in 1..Len(s)}

Min(a, b) == IF a < b THEN a ELSE b

Max(a, b) == IF a > b THEN a ELSE b

UpperOf ==
    [c \in {"a","d","e","o","p","r","s","t","u","w","y"} |->
        CASE c = "a" -> "A" [] c = "d" -> "D" [] c = "e" -> "E" [] c = "o" -> "O"
          [] c = "p" -> "P" [] c = "r" -> "R" [] c = "s" -> "S" [] c = "t" -> "T"
          [] c = "u" -> "U" [] c = "w" -> "W" [] c = "y" -> "Y"]

\* str.lower() on one character (of the letters the posted names and values are made of)
LowerChar(c) ==
    IF \E l \in DOMAIN UpperOf : UpperOf[l] = c
    THEN CHOOSE l \in DOMAIN UpperOf : UpperOf[l] = c
    ELSE c

UpperChar(c) == IF c \in DOMAIN UpperOf THEN UpperOf[c] ELSE c

\* str.lower()
Lower(s) == [i \in 1..Len(s) |-> LowerChar(s[i])]

IsSpace(c) == c = " "

RECURSIVE LStrip(_)
LStrip(s) == IF s # <<>> /\ IsSpace(Head(s)) THEN LStrip(Tail(s)) ELSE s

RECURSIVE RStrip(_)
RStrip(s) ==
    IF s # <<>> /\ IsSpace(s[Len(s)]) THEN RStrip(SubSeq(s, 1, Len(s) - 1)) ELSE s

\* str.strip()
Strip(s) == RStrip(LStrip(s))

\* s[:k]
SliceTo(s, k) ==
    IF k >= 0 THEN SubSeq(s, 1, Min(k, Len(s)))
    ELSE SubSeq(s, 1, Max(Len(s) + k, 0))

\* truthiness of a str
Truthy(s) == s # <<>>

None == <<>>

Some(s) == <<s>>

\* a str of n copies of the character c
Repeat(c, n) == [i \in 1..n |-> c]

-----------------------------------------------------------------------------
(* get_quotes_from_sheet *)

TextKeys == << <<"Q","u","o","t","e">>, <<"T","e","x","t">>, <<"C","o","n","t","e","n","t">>,
               <<"M","e","s","s","a","g","e">>, <<"q","u","o","t","e">>, <<"t","e","x","t">> >>

AuthorKeys == << <<"A","u","t","h","o","r">>, <<"B","y">>, <<"S","o","u","r","c","e">>,
                 <<"a","u","t","h","o","r">>, <<"b","y">> >>

PostedKeys == << <<"P","o","s","t","e","d">>, <<"T","w","e","e","t","e","d">>, <<"U","s","e","d">>,
                 <<"p","o","s","t","e","d">>, <<"t","w","e","e","t","e","d">>, <<"u","s","e","d">> >>

PostedValues == { <<"y","e","s">>, <<"t","r","u","e">>, <<"1">>,
                  <<"p","o","s","t","e","d">>, <<"t","w","e","e","t","e","d">> }

\* for key in keys: if key in row and row[key]: value = str(row[key]).strip(); break
\* None when no key is present with a truthy value
FirstTruthy(r, keys) ==
    LET hits == {i \in 1..Len(keys) : keys[i] \in DOMAIN r /\ Truthy(r[keys[i]])}
    IN  IF hits = {} THEN None
        ELSE LET i == CHOOSE i \in hits : \A j \in hits : i <= j
             IN  Some(Strip(r[keys[i]]))

\* for key in [...]: if key in row and str(row[key]).lower() in [...]: posted = True
RowPosted(r) ==
    \E i \in 1..Len(PostedKeys) :
        PostedKeys[i] \in DOMAIN r /\ Lower(r[PostedKeys[i]]) \in PostedValues

\* the row_index of the record made from all_records[idx] (idx counted from 0)
RowIndexNoHeader(idx) == idx + 1

RowIndex(idx) == idx + 2

\* the body of the loop over enumerate(all_records): the records of one row
\* (none when quote_text is None or empty)
RowRecords(r, idx) ==
    LET quote_text == FirstTruthy(r, TextKeys)
        author == FirstTruthy(r, AuthorKeys)
    IN  IF quote_text # None /\ Truthy(quote_text[1])
        THEN << [text |-> quote_text[1], author |-> author,
                 row_index |-> RowIndex(idx), posted |-> RowPosted(r)] >>
        ELSE <<>>

RECURSIVE QuotesFrom(_, _)
QuotesFrom(all_records, n) ==
    IF n = 0 THEN <<>>
    ELSE QuotesFrom(all_records, n - 1) \o RowRecords(all_records[n], n - 1)

Blank == <<>>

\* the cell of data row i at column c; a cell never written reads as the empty str
CellAt(rws, i, c) == IF c <= Len(rws[i]) THEN rws[i][c] ELSE Blank

\* worksheet.get_all_records(): one mapping header -> cell per data row
get_all_records(hdrs, rws) ==
    [i \in 1..Len(rws) |->
        [h \in Range(hdrs) |-> CellAt(rws, i, CHOOSE c \in 1..Len(hdrs) : hdrs[c] = h)]]

\* readOk = FALSE: get_all_records raised, the except clause returns []
get_quotes_from_sheet(hdrs, rws, readOk) ==
    IF readOk
    THEN LET all_records == get_all_records(hdrs, rws)
         IN  QuotesFrom(all_records, Len(all_records))
    ELSE <<>>

-----------------------------------------------------------------------------
(* format_tweet *)

TweetLimit == 280

MinQuoteLength == 50

Separator == <<" ", "-", " ">>

Ellipsis == <<".", ".", ".">>

ShortenNoRoom(quote_text, max_quote_length) ==
    SliceTo(quote_text, max_quote_length) \o Ellipsis

\* quote_text[:max_quote_length-3] + '...'
Shorten(quote_text, max_quote_length) ==
    SliceTo(quote_text, max_quote_length - 3) \o Ellipsis

\* f' - {author}' when author is truthy, nothing otherwise
AuthorSuffix(author) ==
    IF author # None /\ Truthy(author[1]) THEN Separator \o author[1] ELSE <<>>

format_tweet(q) ==
    LET author == q.author
        author_or_empty == IF author # None THEN author[1] ELSE <<>>
        full == q.text \o AuthorSuffix(author)
        max_quote_length == TweetLimit - Len(Separator) - Len(author_or_empty)
    IN  IF Len(full) > TweetLimit /\ max_quote_length > MinQuoteLength
        THEN Shorten(q.text, max_quote_length) \o AuthorSuffix(author)
        ELSE full

-----------------------------------------------------------------------------
(* mark_as_posted *)

PostedHeaderNames == { <<"p","o","s","t","e","d">>, <<"t","w","e","e","t","e","d">>,
                       <<"u","s","e","d">> }

PostedTitle == <<"P","o","s","t","e","d">>

Yes == <<"Y","e","s">>

PadTo(s, n) == [i \in 1..Max(Len(s), n) |-> IF i <= Len(s) THEN s[i] ELSE Blank]

\* worksheet.update_cell(r, c, value) on the sheet [headers, cells]; row 1 is the header row
update_cell(sheet, r, c, value) ==
    IF r = 1
    THEN [headers |-> [PadTo(sheet.headers, c) EXCEPT ![c] = value],
          cells |-> sheet.cells]
    ELSE [headers |-> sheet.headers,
          cells |-> [i \in 1..Len(sheet.cells) |->
                        IF i = r - 1
                        THEN [PadTo(sheet.cells[i], c) EXCEPT ![c] = value]
                        ELSE sheet.cells[i]]]

\* the 1-based column of the first header that is posted/tweeted/used in any casing; 0 for None
FindPostedCol(hdrs) ==
    LET hits == {i \in 1..Len(hdrs) : Lower(hdrs[i]) \in PostedHeaderNames}
    IN  IF hits = {} THEN 0 ELSE CHOOSE i \in hits : \A j \in hits : i <= j

\* failAt names the worksheet call that raises in this run ("none" when none does).
\* Every exception is caught and logged: the result carries the sheet as the calls
\* that succeeded left it, those calls, and the call whose error was logged.
mark_as_posted(sheet, row_index, failAt) ==
    IF failAt = "row_values"
    THEN [sheet |-> sheet, writes |-> <<>>, failed |-> failAt]
    ELSE LET found == FindPostedCol(sheet.headers)
             posted_col == IF found = 0 THEN Len(sheet.headers) + 1 ELSE found
             titled == IF found = 0 THEN update_cell(sheet, 1, posted_col, PostedTitle)
                       ELSE sheet
             w1 == IF found = 0 THEN << <<1, posted_col, PostedTitle>> >> ELSE <<>>
         IN  IF found = 0 /\ failAt = "update_header"
             THEN [sheet |-> sheet, writes |-> <<>>, failed |-> failAt]
             ELSE IF failAt = "update_yes"
             THEN [sheet |-> titled, writes |-> w1, failed |-> failAt]
             ELSE [sheet |-> update_cell(titled, row_index, posted_col, Yes),
                   writes |-> w1 \o << <<row_index, posted_col, Yes>> >>,
                   failed |-> "none"]

-----------------------------------------------------------------------------
(* post_quote and main *)

\* [q for q in quotes if not q['posted']]
Unposted(quotes) == SelectSeq(quotes, LAMBDA q : ~q.posted)

\* the sequence random.choice draws from
ChoicePoolAll(quotes) == quotes

ChoicePool(quotes) ==
    IF Unposted(quotes) = <<>> THEN quotes ELSE Unposted(quotes)

\* random.choice(pool): any element of pool, the draw deciding which
Choice(pool, draw) == pool[draw + 1]

\* if response.data: create_tweet returned, and its response carries the tweet
ResponseDataAny(pub) == pub # "raise"

ResponseData(pub) == pub = "ok"

\* mark_as_posted has logged whatever was raised in it; post_quote returns True
ReturnUnlessMarkFailed(failed) == failed = "none"

ReturnAfterMark(failed) == TRUE

\* what a run that published nothing and wrote nothing reports
NoCalls(sheet, quotes, ret) ==
    [ret |-> ret, sheet |-> sheet, quotes |-> quotes, selected |-> None,
     tweet_text |-> None, warned |-> FALSE, publish |-> "none",
     markCalled |-> FALSE, markFailed |-> "none", writes |-> <<>>]

\* readOk, draw, pub and failAt are what the collaborators do in this run:
\* whether get_all_records returns, the random draw, what create_tweet does
\* ("ok", "raise", "nodata") and which worksheet call of mark_as_posted raises.
post_quote(sheet, readOk, draw, pub, failAt) ==
    LET quotes == get_quotes_from_sheet(sheet.headers, sheet.cells, readOk)
    IN  IF quotes = <<>>
        THEN NoCalls(sheet, quotes, FALSE)
        ELSE LET selected_quote == Choice(ChoicePool(quotes), draw)
                 tweet_text == format_tweet(selected_quote)
                 tried == [NoCalls(sheet, quotes, FALSE) EXCEPT
                              !.selected = Some(selected_quote),
                              !.tweet_text = Some(tweet_text),
                              !.warned = (Unposted(quotes) = <<>>),
                              !.publish = pub]
                 marked == mark_as_posted(sheet, selected_quote.row_index, failAt)
             IN  IF ResponseData(pub)
                 THEN [tried EXCEPT !.ret = ReturnAfterMark(marked.failed),
                                    !.sheet = marked.sheet,
                                    !.markCalled = TRUE, !.markFailed = marked.failed,
                                    !.writes = marked.writes]
                 ELSE tried

\* the exit status of the process: exit(1) when post_quote returned False
ExitStatusZero(success) == 0

ExitStatus(success) == IF success THEN 0 ELSE 1

\* what a run leaves in last: its calls and result, and the exit status
Report(run) == [run EXCEPT !.sheet = None] @@ [exit |-> ExitStatus(run.ret)]

NoRun == Report(NoCalls(None, <<>>, TRUE))

PublishOutcomes == {"ok", "raise", "nodata"}

MarkFailures == {"none", "row_values", "update_header", "update_yes"}

\* The collaborators' behaviour is drawn only for the calls a run makes:
\* random.choice draws within its pool, create_tweet has an outcome only when it
\* is called, a worksheet call of mark_as_posted can raise only when it is made.
Draws(quotes) ==
    IF quotes = <<>> THEN {0} ELSE 0..(Len(ChoicePool(quotes)) - 1)

Publishes(quotes) == IF quotes = <<>> THEN {"ok"} ELSE PublishOutcomes

Failures(hdrs, quotes, pub) ==
    IF quotes = <<>> \/ pub # "ok" THEN {"none"}
    ELSE IF FindPostedCol(hdrs) = 0 THEN MarkFailures
    ELSE MarkFailures \ {"update_header"}

\* one run of main(): the bot is constructed, post_quote runs, the process exits
Main(readOk, draw, pub, failAt) ==
    /\ phase = "sheet"
    /\ LET run == post_quote([headers |-> headers, cells |-> cells], readOk, draw, pub, failAt)
       IN  /\ headers' = run.sheet.headers
           /\ cells' = run.sheet.cells
           /\ last' = Report(run)
           /\ published' = IF run.publish = "ok"
                           THEN published \cup {run.selected[1].row_index}
                           ELSE published
           /\ clean' = (clean /\ run.publish = "ok" /\ run.markFailed = "none")
    /\ UNCHANGED <<extracted, quote_data, tweet>>
    /\ UNCHANGED phase

-----------------------------------------------------------------------------
(* The worksheets the runs start from *)

Quote == TextKeys[1]

Author == AuthorKeys[1]

PostedUpper == <<"P","O","S","T","E","D">>

\* header rows: no posted column, one the reader knows, one in another casing,
\* lower-case names with two posted columns, the posted column before the text column
HeaderChoices ==
    { <<Quote, Author>>,
      <<Quote, Author, PostedKeys[1]>>,
      <<Quote, PostedUpper, Author>>,
      <<TextKeys[6], PostedKeys[6], PostedKeys[1]>>,
      <<PostedKeys[2], Quote>> }

\* the quote of data row i: each row has its own text
QuoteText(i) == Repeat("q", i)

AuthorName == <<"A", "l">>

\* every other row names its author
AuthorCell(i) == IF i % 2 = 1 THEN AuthorName ELSE Blank

CellChoices(h, i) ==
    IF h \in Range(TextKeys) THEN {Blank, QuoteText(i)}
    ELSE IF h \in Range(AuthorKeys) THEN {AuthorCell(i)}
    ELSE {Blank}

RowChoices(hdrs, i) ==
    {r \in [1..Len(hdrs) -> {Blank, QuoteText(i), AuthorName}] :
        \A c \in 1..Len(hdrs) : r[c] \in CellChoices(hdrs[c], i)}

Sheets(hdrs, n) ==
    {rws \in [1..n -> UNION {RowChoices(hdrs, i) : i \in 1..n}] :
        \A i \in 1..n : rws[i] \in RowChoices(hdrs, i)}

Init ==
    /\ phase = "sheet"
    /\ headers \in HeaderChoices
    /\ cells \in Sheets(headers, MaxRows)
    /\ last = NoRun
    /\ published = {}
    /\ clean = TRUE
    /\ extracted = <<>>
    /\ quote_data = <<>>
    /\ tweet = <<>>

Next ==
    \E readOk \in BOOLEAN :
        LET quotes == get_quotes_from_sheet(headers, cells, readOk)
        IN  \E draw \in Draws(quotes), pub \in Publishes(quotes) :
                \E failAt \in Failures(headers, quotes, pub) :
                    Main(readOk, draw, pub, failAt)

Spec == Init /\ [][Next]_vars

-----------------------------------------------------------------------------
(* get_quotes_from_sheet on one-row worksheets *)

\* every casing of the str w
RECURSIVE Casings(_)
Casings(w) ==
    IF w = <<>> THEN {<<>>}
    ELSE {<<c>> \o t : c \in {Head(w), UpperChar(Head(w))}, t \in Casings(Tail(w))}

TextCells == {Blank, <<" ">>, <<"a">>, <<" ", "b", " ">>}

PostedNameCasings == UNION {Casings(w) : w \in PostedHeaderNames}

PostedValueCasings == UNION {Casings(w) : w \in PostedValues}

No == <<"n", "o">>

\* two text columns with blank, whitespace and real text, and a Posted column
TextSheets ==
    {[headers |-> <<TextKeys[ab[1]], TextKeys[ab[2]], PostedKeys[1]>>,
      cells |-> << <<v, w, p>> >>] :
        ab \in {x \in (1..Len(TextKeys)) \X (1..Len(TextKeys)) : x[1] # x[2]},
        v \in TextCells, w \in TextCells, p \in {Blank, Yes}}

\* a Quote column and a posted column in every casing of its name and of its value
PostedSheets ==
    {[headers |-> <<Quote, name>>, cells |-> << <<QuoteText(1), value>> >>] :
        name \in PostedNameCasings \cup {Author},
        value \in PostedValueCasings \cup {Blank, No}}

InitExtract ==
    /\ phase = "rows"
    /\ \E sheet \in TextSheets \cup PostedSheets :
          /\ headers = sheet.headers
          /\ cells = sheet.cells
    /\ last = NoRun
    /\ published = {}
    /\ clean = TRUE
    /\ extracted = <<>>
    /\ quote_data = <<>>
    /\ tweet = <<>>

Extract ==
    /\ phase = "rows"
    /\ extracted' = get_quotes_from_sheet(headers, cells, TRUE)
    /\ phase' = "records"
    /\ UNCHANGED <<headers, cells, last, published, clean, quote_data, tweet>>

NextExtract == Extract

SpecExtract == InitExtract /\ [][NextExtract]_vars

-----------------------------------------------------------------------------
(* format_tweet on records of every length *)

Authors == {None} \cup {Some(Repeat("w", m)) : m \in 0..MaxAuthorLen}

Records ==
    {[text |-> Repeat("q", n), author |-> a, row_index |-> 2, posted |-> FALSE] :
        n \in 1..MaxTextLen, a \in Authors}

InitFormat ==
    /\ phase = "record"
    /\ quote_data \in Records
    /\ tweet = <<>>
    /\ headers = <<>>
    /\ cells = <<>>
    /\ last = NoRun
    /\ published = {}
    /\ clean = TRUE
    /\ extracted = <<>>

Format ==
    /\ phase = "record"
    /\ tweet' = format_tweet(quote_data)
    /\ phase' = "tweet"
    /\ UNCHANGED <<headers, cells, last, published, clean, extracted, quote_data>>

NextFormat == Format

SpecFormat == InitFormat /\ [][NextFormat]_vars

-----------------------------------------------------------------------------
(* Properties of the runs over one worksheet (Spec) *)

Ran == last # NoRun

Selected == last.selected[1]

Published == last.publish = "ok"

\* C2: when some extracted record is unposted the selected record is unposted,
\* whatever the draw; a posted record is selected only when all are posted.
C2_SelectsUnposted ==
    (Ran /\ last.selected # None) =>
        /\ \E k \in 1..Len(last.quotes) : last.quotes[k] = Selected
        /\ (\E k \in 1..Len(last.quotes) : ~last.quotes[k].posted) => ~Selected.posted
        /\ Selected.posted => \A k \in 1..Len(last.quotes) : last.quotes[k].posted

C2_Witness ==
    /\ Ran /\ last.selected # None
    /\ ~Selected.posted
    /\ \E k \in 1..Len(last.quotes) : last.quotes[k].posted

\* C3: a failed publish (create_tweet raises, or its response has no data) is
\* followed by no write-back: mark_as_posted is not called, no cell is written,
\* the sheet is as it was, and post_quote returns False.
C3_PublishFailureNoWriteBack ==
    [][last'.publish \in {"raise", "nodata"} =>
          /\ ~last'.markCalled
          /\ last'.writes = <<>>
          /\ headers' = headers /\ cells' = cells
          /\ last'.ret = FALSE]_vars

C3_Witness ==
    /\ last.publish = "nodata"
    /\ last.ret = FALSE
    /\ last.selected # None

\* C4: a write-back that fails after a successful publish, at whichever of its
\* calls, leaves the run successful: post_quote returns True, exit status 0.
C4_WriteBackFailureStillSuccess ==
    (Published /\ last.markFailed # "none") => (last.ret = TRUE /\ last.exit = 0)

C4_Witness ==
    /\ Published
    /\ last.markFailed = "update_yes"
    /\ Len(last.writes) = 1
    /\ last.ret = TRUE

\* C5: a run whose extraction yields no records publishes nothing, writes
\* nothing, returns False and exits with status 1.
C5_EmptyPoolFails ==
    (Ran /\ last.quotes = <<>>) =>
        /\ last.publish = "none"
        /\ ~last.markCalled
        /\ last.writes = <<>>
        /\ last.ret = FALSE
        /\ last.exit # 0

\* the read failed on a sheet that holds a quote
C5_Witness ==
    /\ Ran /\ last.quotes = <<>>
    /\ last.exit = 1
    /\ get_quotes_from_sheet(headers, cells, TRUE) # <<>>

\* C1: over runs in which every publish and every write-back succeeded, a quote
\* already published is published again only when every quote of the sheet has
\* been published.
C1_NoRepeatBeforeExhausted ==
    [][(clean' /\ last'.publish = "ok"
           /\ last'.selected[1].row_index \in published) =>
          \A k \in 1..Len(last'.quotes) : last'.quotes[k].row_index \in published]_vars

\* the same, over the sheets whose posted column is spelled as the reader spells it
C1_ReaderSpellings ==
    [][(\A c \in 1..Len(headers) :
            Lower(headers[c]) \in PostedHeaderNames => headers[c] \in Range(PostedKeys)) =>
        ((clean' /\ last'.publish = "ok"
            /\ last'.selected[1].row_index \in published) =>
          \A k \in 1..Len(last'.quotes) : last'.quotes[k].row_index \in published)]_vars

\* the data row (1-based in cells) holding the text of the record q
SourceRow(q) ==
    CHOOSE i \in 1..Len(cells) :
        \E c \in 1..Len(headers) : headers[c] \in Range(TextKeys) /\ cells[i][c] = q.text

\* the headers that name the posted column, in any casing
PostedHeaders == {c \in 1..Len(headers) : Lower(headers[c]) \in PostedHeaderNames}

\* C10: after a successful publish the run writes Yes into the selected record's
\* own sheet row (its position among the data rows + 2) at the first header that
\* is posted/tweeted/used in any casing; only when there is none it first titles
\* column len(headers) + 1 Posted; it changes no other cell.
C10_WriteBackTarget ==
    [][last'.publish = "ok" =>
        LET q == last'.selected[1]
            i == SourceRow(q)
            col == IF PostedHeaders = {} THEN Len(headers) + 1
                   ELSE CHOOSE c \in PostedHeaders : \A d \in PostedHeaders : c <= d
            width == Len(headers) + 1
        IN  /\ q.row_index = i + 1
            /\ Len(cells') = Len(cells)
            /\ \A j \in 1..Len(cells), c \in 1..width :
                  <<j, c>> # <<i, col>> => CellAt(cells', j, c) = CellAt(cells, j, c)
            /\ CellAt(cells', i, col) \in {CellAt(cells, i, col), Yes}
            /\ PostedHeaders # {} => headers' = headers
            /\ PostedHeaders = {} => headers' \in {headers, Append(headers, PostedTitle)}
            /\ last'.markFailed = "none" =>
                  /\ CellAt(cells', i, col) = Yes
                  /\ PostedHeaders = {} => headers' = Append(headers, PostedTitle)]_vars

\* a new Posted column was titled and Yes written in the row of a record that
\* follows a dropped row
C10_Witness ==
    /\ Published /\ last.markFailed = "none"
    /\ Len(last.writes) = 2
    /\ Selected.row_index = 3
    /\ last.quotes[1] = Selected
    /\ CellAt(cells, 2, Len(headers)) = Yes
    /\ headers[Len(headers)] = PostedTitle

-----------------------------------------------------------------------------
(* Properties of format_tweet (SpecFormat) *)

AuthorLen == IF quote_data.author = None THEN 0 ELSE Len(quote_data.author[1])

\* 280 - len(' - ') - len(author or '')
MaxTextLenOf == 280 - 3 - AuthorLen

\* C6: when max_text_len is greater than 50, the tweet has at most 280
\* characters, with an author and without.
C6_FitsWhenShortenable ==
    (phase = "tweet" /\ MaxTextLenOf > 50) => Len(tweet) <= 280

\* a text with an author that had to be shortened, and fills the limit
C6_Witness ==
    /\ phase = "tweet" /\ MaxTextLenOf > 50
    /\ AuthorLen > 0
    /\ Len(quote_data.text) + 3 + AuthorLen > 280
    /\ Len(tweet) = 280

\* C7: the tweet has at most 280 characters for every record.
C7_AlwaysFits == phase = "tweet" => Len(tweet) <= 280

-----------------------------------------------------------------------------
(* Properties of get_quotes_from_sheet (SpecExtract) *)

\* the text columns of the row, in priority order, whose trimmed value is non-empty
TextCandidates ==
    {k \in 1..Len(TextKeys) :
        \E c \in 1..Len(headers) :
            headers[c] = TextKeys[k] /\ Strip(cells[1][c]) # <<>>}

TextOfKey(k) == Strip(cells[1][CHOOSE c \in 1..Len(headers) : headers[c] = TextKeys[k]])

\* C8: the record's text is the trimmed value of the first text column, in
\* priority order, whose trimmed value is non-empty; the row is dropped only
\* when there is no such column; no record has an empty text.
C8_FirstNonEmptyText ==
    phase = "records" =>
        /\ TextCandidates = {} => extracted = <<>>
        /\ TextCandidates # {} =>
              /\ Len(extracted) = 1
              /\ extracted[1].text =
                    TextOfKey(CHOOSE k \in TextCandidates : \A j \in TextCandidates : k <= j)
        /\ \A k \in 1..Len(extracted) : extracted[k].text # <<>>

\* the columns named posted/tweeted/used in any casing
FlagColumns == {c \in 1..Len(headers) : Lower(headers[c]) \in PostedHeaderNames}

\* C9: a row with a column named posted/tweeted/used in any casing holding
\* yes/true/1/posted/tweeted in any casing yields posted = true; a row with no
\* such column yields posted = false.
C9_PostedAnyCasing ==
    (phase = "records" /\ extracted # <<>>) =>
        /\ (\E c \in FlagColumns : Lower(cells[1][c]) \in PostedValues) => extracted[1].posted
        /\ FlagColumns = {} => ~extracted[1].posted

====
